---- MODULE Spec2Model ----
(***************************************************************************)
(* Screwtape visualizer: the interpreter core (bracket map, linked tape,   *)
(* single-step engine, output formatter) and the page driver around it.    *)
(* Modelled from the latest revision, src/unnamed/part_001 lines 1-256.    *)
(***************************************************************************)
EXTENDS Integers, Sequences, FiniteSets, TLC

VARIABLES
    programInput,   \* programInput.value: the program text in the text area
    screwtape,      \* the ScrewtapeInterpreter object
    isRunning,      \* auto-run flag of the driver
    stepInterval,   \* handle of the interval timer, or Null
    timers,         \* interval timers pending in the browser
    editable,       \* contentEditable of the tape cells as last rendered
    calls,          \* history: one entry per step() invocation made while
                    \* the termination flag was false, since construction
    idleCall        \* history: step() was invoked with the flag already true

vars == <<programInput, screwtape, isRunning, stepInterval, timers, editable, calls, idleCall>>

----------------------------------------------------------------------------
(* Bounds of the model *)

MaxProgLen == 2     \* longest program of the general specification
MaxNodes == 3       \* most tape cells materialized
MaxSteps == 4       \* most step() invocations per interpreter (general)
MaxRunSteps == 36   \* most step() invocations per interpreter (plain runs)
MaxBalLen == 8      \* longest brackets-only program of the plain runs
MaxBracketLen == 5  \* longest program given to the bracket resolver alone

Null == -1          \* null: no node, no timer

Alphabet == {"+", "-", ">", "<", ".", "[", "]", "x"}

SeqsUpTo(S, n) == UNION {[1..k -> S] : k \in 0..n}

Programs == SeqsUpTo(Alphabet, MaxProgLen)

\* program[i] with the code's 0-based index
CharAt(program, i) == program[i + 1]

----------------------------------------------------------------------------
(* class TapeNode *)

TapeNode(v) == [value |-> v, left |-> Null, right |-> Null]

----------------------------------------------------------------------------
(* buildBracketMap: one left-to-right pass with a stack of pending '[' *)

\* variant: the oldest pending '[' is taken (shift instead of pop)
RECURSIVE BuildLoopShift(_, _, _, _)
BuildLoopShift(program, i, stack, map) ==
    IF i >= Len(program) THEN map
    ELSE IF CharAt(program, i) = "[" THEN
        BuildLoopShift(program, i + 1, Append(stack, i), map)
    ELSE IF CharAt(program, i) = "]" /\ Len(stack) > 0 THEN
        BuildLoopShift(program, i + 1, Tail(stack), map @@ (i :> stack[1]))
    ELSE BuildLoopShift(program, i + 1, stack, map)

\* variant: the top of the stack is read but not popped
RECURSIVE BuildLoopPeek(_, _, _, _)
BuildLoopPeek(program, i, stack, map) ==
    IF i >= Len(program) THEN map
    ELSE IF CharAt(program, i) = "[" THEN
        BuildLoopPeek(program, i + 1, Append(stack, i), map)
    ELSE IF CharAt(program, i) = "]" /\ Len(stack) > 0 THEN
        BuildLoopPeek(program, i + 1, stack, map @@ (i :> stack[Len(stack)]))
    ELSE BuildLoopPeek(program, i + 1, stack, map)

\* variant: the entry is the index of the ']' itself, not of its '['
RECURSIVE BuildLoopSelf(_, _, _, _)
BuildLoopSelf(program, i, stack, map) ==
    IF i >= Len(program) THEN map
    ELSE IF CharAt(program, i) = "[" THEN
        BuildLoopSelf(program, i + 1, Append(stack, i), map)
    ELSE IF CharAt(program, i) = "]" /\ Len(stack) > 0 THEN
        LET openIndex == stack[Len(stack)] IN
        BuildLoopSelf(program, i + 1, SubSeq(stack, 1, Len(stack) - 1),
                        map @@ (i :> i))
    ELSE BuildLoopSelf(program, i + 1, stack, map)

RECURSIVE BuildLoop(_, _, _, _)
BuildLoop(program, i, stack, map) ==
    IF i >= Len(program) THEN map
    ELSE IF CharAt(program, i) = "[" THEN
        BuildLoop(program, i + 1, Append(stack, i), map)
    ELSE IF CharAt(program, i) = "]" /\ Len(stack) > 0 THEN
        LET openIndex == stack[Len(stack)] IN
        BuildLoop(program, i + 1, SubSeq(stack, 1, Len(stack) - 1),
                  map @@ (i :> openIndex))
    ELSE BuildLoop(program, i + 1, stack, map)

buildBracketMap(program) == BuildLoop(program, 0, <<>>, <<>>)

----------------------------------------------------------------------------
(* constructor *)

\* variant: the constructor already applies the bounds check of step()
NewInterpreterChecked(program) ==
    [program |-> program,
     ip |-> 0,
     output |-> <<>>,
     terminated |-> (Len(program) = 0),
     bracketMap |-> buildBracketMap(program),
     nodes |-> (0 :> TapeNode(0)),
     currentNode |-> 0,
     nodeCount |-> 1,
     leftmostNode |-> 0,
     rightmostNode |-> 0]

NewInterpreter(program) ==
    [program |-> program,
     ip |-> 0,
     output |-> <<>>,
     terminated |-> FALSE,
     bracketMap |-> buildBracketMap(program),
     nodes |-> (0 :> TapeNode(0)),
     currentNode |-> 0,
     nodeCount |-> 1,
     leftmostNode |-> 0,
     rightmostNode |-> 0]

----------------------------------------------------------------------------
(* addCellLeft / addCellRight *)

\* variant: the new cell is not linked back to the old left end
addCellLeftOneWay(s) ==
    LET n == s.nodeCount IN
    [s EXCEPT !.nodes = [s.nodes EXCEPT ![s.leftmostNode].left = n]
                        @@ (n :> TapeNode(0)),
              !.nodeCount = n + 1,
              !.leftmostNode = n]

addCellLeft(s) ==
    LET n == s.nodeCount IN
    [s EXCEPT !.nodes = [s.nodes EXCEPT ![s.leftmostNode].left = n]
                        @@ (n :> [TapeNode(0) EXCEPT !.right = s.leftmostNode]),
              !.nodeCount = n + 1,
              !.leftmostNode = n]

\* variant: the new cell is linked in but not recorded as the right end
addCellRightNoEnd(s) ==
    LET n == s.nodeCount IN
    [s EXCEPT !.nodes = [s.nodes EXCEPT ![s.rightmostNode].right = n]
                        @@ (n :> [TapeNode(0) EXCEPT !.left = s.rightmostNode]),
              !.nodeCount = n + 1]

addCellRight(s) ==
    LET n == s.nodeCount IN
    [s EXCEPT !.nodes = [s.nodes EXCEPT ![s.rightmostNode].right = n]
                        @@ (n :> [TapeNode(0) EXCEPT !.left = s.rightmostNode]),
              !.nodeCount = n + 1,
              !.rightmostNode = n]

----------------------------------------------------------------------------
(* formatChar *)

NamedCodes == (0 :> "NUL") @@ (7 :> "BEL") @@ (8 :> "BS") @@ (9 :> "TAB")
              @@ (10 :> "LF") @@ (13 :> "CR")

\* variant: every code is shown as its character
formatCharRaw(code) == [kind |-> "char", code |-> code]

\* variant: the printable range starts after the space
formatCharNoSpace(code) ==
    IF code > 32 /\ code <= 126 THEN [kind |-> "char", code |-> code]
    ELSE IF code \in DOMAIN NamedCodes
         THEN [kind |-> "nonprint", name |-> NamedCodes[code]]
         ELSE [kind |-> "nonprint", number |-> code]

formatChar(code) ==
    IF code >= 32 /\ code <= 126 THEN [kind |-> "char", code |-> code]
    ELSE IF code \in DOMAIN NamedCodes
         THEN [kind |-> "nonprint", name |-> NamedCodes[code]]
         ELSE [kind |-> "nonprint", number |-> code]

----------------------------------------------------------------------------
(* step *)

\* variant: '+' stops at the largest value instead of wrapping
IncrementSaturating(v) == IF v = 2147483647 THEN v ELSE v + 1

\* (v + 1) | 0 and (v - 1) | 0 on a 32-bit signed value
Increment(v) == IF v = 2147483647 THEN -2147483647 - 1 ELSE v + 1

\* variant: '-' stops at 0 instead of going negative
DecrementClamped(v) == IF v > 0 THEN v - 1 ELSE v

Decrement(v) == IF v = -2147483647 - 1 THEN 2147483647 ELSE v - 1

OutOfBounds(s, i) == i < 0 \/ i >= Len(s.program)

CurrentValue(s) == s.nodes[s.currentNode].value

\* variant: the new cell is linked but rightmostNode is not moved
moveRightNoEnd(s) ==
    IF s.nodes[s.currentNode].right = Null
    THEN LET n == s.nodeCount IN
         [s EXCEPT !.nodes = [s.nodes EXCEPT ![s.currentNode].right = n]
                             @@ (n :> [TapeNode(0) EXCEPT !.left = s.currentNode]),
                   !.nodeCount = n + 1,
                   !.currentNode = n]
    ELSE [s EXCEPT !.currentNode = s.nodes[s.currentNode].right]

\* variant: '>' always links in a new cell, even when a right neighbour exists
moveRightFresh(s) ==
    LET n == s.nodeCount IN
    [s EXCEPT !.nodes = [s.nodes EXCEPT ![s.currentNode].right = n]
                        @@ (n :> [TapeNode(0) EXCEPT !.left = s.currentNode]),
              !.nodeCount = n + 1,
              !.rightmostNode = n,
              !.currentNode = n]

moveRight(s) ==
    IF s.nodes[s.currentNode].right = Null
    THEN LET n == s.nodeCount IN
         [s EXCEPT !.nodes = [s.nodes EXCEPT ![s.currentNode].right = n]
                             @@ (n :> [TapeNode(0) EXCEPT !.left = s.currentNode]),
                   !.nodeCount = n + 1,
                   !.rightmostNode = n,
                   !.currentNode = n]
    ELSE [s EXCEPT !.currentNode = s.nodes[s.currentNode].right]

\* variant: '<' always links in a new cell, even when a left neighbour exists
moveLeftFresh(s) ==
    LET n == s.nodeCount IN
    [s EXCEPT !.nodes = [s.nodes EXCEPT ![s.currentNode].left = n]
                        @@ (n :> [TapeNode(0) EXCEPT !.right = s.currentNode]),
              !.nodeCount = n + 1,
              !.leftmostNode = n,
              !.currentNode = n]

moveLeft(s) ==
    IF s.nodes[s.currentNode].left = Null
    THEN LET n == s.nodeCount IN
         [s EXCEPT !.nodes = [s.nodes EXCEPT ![s.currentNode].left = n]
                             @@ (n :> [TapeNode(0) EXCEPT !.right = s.currentNode]),
                   !.nodeCount = n + 1,
                   !.leftmostNode = n,
                   !.currentNode = n]
    ELSE [s EXCEPT !.currentNode = s.nodes[s.currentNode].left]

\* variant: the jump lands past the '[' (open index + 1)
JumpTargetPastOpen(s) ==
    IF s.ip \in DOMAIN s.bracketMap THEN s.bracketMap[s.ip] + 1 ELSE Null

\* variant: a ']' without an entry falls back to index 0
JumpTargetDefaultZero(s) ==
    IF s.ip \in DOMAIN s.bracketMap THEN s.bracketMap[s.ip] ELSE 0

\* const matchIndex = this.bracketMap[this.ip]; Null stands for undefined
JumpTarget(s) ==
    IF s.ip \in DOMAIN s.bracketMap THEN s.bracketMap[s.ip] ELSE Null

\* variant: the cell value is not tested
JumpTakenAlways(s) ==
    /\ CharAt(s.program, s.ip) = "]"
    /\ JumpTarget(s) # Null

\* variant: the loop is left one value early
JumpTakenAboveOne(s) ==
    /\ CharAt(s.program, s.ip) = "]"
    /\ CurrentValue(s) > 1
    /\ JumpTarget(s) # Null

\* variant: the test on the cell is inverted
JumpTakenOnZero(s) ==
    /\ CharAt(s.program, s.ip) = "]"
    /\ CurrentValue(s) = 0
    /\ JumpTarget(s) # Null

\* variant: the jump is taken without testing that the ']' has an entry
JumpTakenUnmatched(s) ==
    /\ CharAt(s.program, s.ip) = "]"
    /\ CurrentValue(s) # 0

\* the ']' case takes its early return
JumpTaken(s) ==
    /\ CharAt(s.program, s.ip) = "]"
    /\ CurrentValue(s) # 0
    /\ JumpTarget(s) # Null

\* variant: the '-' case lacks its break and falls through into '>'
DispatchFallThrough(s) ==
    LET instr == CharAt(s.program, s.ip) IN
    CASE instr = "+" ->
           [s EXCEPT !.nodes[s.currentNode].value = Increment(CurrentValue(s))]
      [] instr = "-" ->
           moveRight([s EXCEPT !.nodes[s.currentNode].value = Decrement(CurrentValue(s))])
      [] instr = ">" -> moveRight(s)
      [] instr = "<" -> moveLeft(s)
      [] instr = "." ->
           [s EXCEPT !.output = Append(s.output, formatChar(CurrentValue(s)))]
      [] OTHER -> s

\* variant: a character outside the instruction set stops the interpreter
DispatchStrict(s) ==
    LET instr == CharAt(s.program, s.ip) IN
    CASE instr = "+" ->
           [s EXCEPT !.nodes[s.currentNode].value = Increment(CurrentValue(s))]
      [] instr = "-" ->
           [s EXCEPT !.nodes[s.currentNode].value = Decrement(CurrentValue(s))]
      [] instr = ">" -> moveRight(s)
      [] instr = "<" -> moveLeft(s)
      [] instr = "." ->
           [s EXCEPT !.output = Append(s.output, formatChar(CurrentValue(s)))]
      [] instr \in {"[", "]"} -> s
      [] OTHER -> [s EXCEPT !.terminated = TRUE]

\* the switch, without the ']' early return
Dispatch(s) ==
    LET instr == CharAt(s.program, s.ip) IN
    CASE instr = "+" ->
           [s EXCEPT !.nodes[s.currentNode].value = Increment(CurrentValue(s))]
      [] instr = "-" ->
           [s EXCEPT !.nodes[s.currentNode].value = Decrement(CurrentValue(s))]
      [] instr = ">" -> moveRight(s)
      [] instr = "<" -> moveLeft(s)
      [] instr = "." ->
           [s EXCEPT !.output = Append(s.output, formatChar(CurrentValue(s)))]
      [] OTHER -> s

\* variant: the bounds check after this.ip++ is off by one
AdvanceEarly(s) ==
    LET t == [s EXCEPT !.ip = s.ip + 1] IN
    IF t.ip >= Len(t.program) - 1 THEN [t EXCEPT !.terminated = TRUE] ELSE t

\* variant: '[' on a zero cell skips forward past its ']' as in standard Brainfuck
AdvanceSkipOpen(s) ==
    LET closes == {c \in DOMAIN s.bracketMap : s.bracketMap[c] = s.ip}
        next == IF CharAt(s.program, s.ip) = "[" /\ CurrentValue(s) = 0 /\ closes # {}
                THEN 1 + CHOOSE c \in closes : TRUE
                ELSE s.ip + 1
        t == [s EXCEPT !.ip = next]
    IN IF OutOfBounds(t, t.ip) THEN [t EXCEPT !.terminated = TRUE] ELSE t

\* this.ip++ and the bounds check after it
Advance(s) ==
    LET t == [s EXCEPT !.ip = s.ip + 1] IN
    IF OutOfBounds(t, t.ip) THEN [t EXCEPT !.terminated = TRUE] ELSE t

step(s) ==
    IF OutOfBounds(s, s.ip) THEN [s EXCEPT !.terminated = TRUE]
    ELSE IF JumpTaken(s) THEN [s EXCEPT !.ip = JumpTarget(s)]
    ELSE Advance(Dispatch(s))

runStep(s) == IF ~s.terminated THEN step(s) ELSE s

----------------------------------------------------------------------------
(* renderTape: the cells shown, walking right from leftmostNode *)

RECURSIVE Walk(_, _, _)
Walk(s, cur, fuel) ==
    IF cur = Null \/ fuel = 0 THEN <<>>
    ELSE IF cur = s.rightmostNode THEN <<cur>>
    ELSE <<cur>> \o Walk(s, s.nodes[cur].right, fuel - 1)

RenderedNodes(s) == Walk(s, s.leftmostNode, s.nodeCount)

----------------------------------------------------------------------------
(* the blur handler of a cell: parseInt(div.textContent, 10), then num | 0 *)

DigitValue == ("0" :> 0) @@ ("1" :> 1) @@ ("2" :> 2) @@ ("3" :> 3) @@ ("4" :> 4)
              @@ ("5" :> 5) @@ ("6" :> 6) @@ ("7" :> 7) @@ ("8" :> 8) @@ ("9" :> 9)

Half == 65536       \* numbers are carried as two 16-bit halves <<hi, lo>>

RECURSIVE SkipSpace(_)
SkipSpace(text) ==
    IF Len(text) > 0 /\ text[1] = " " THEN SkipSpace(Tail(text)) ELSE text

\* the digits read so far, modulo 2^32, as <<hi, lo>>
RECURSIVE ReadDigits(_, _)
ReadDigits(text, acc) ==
    IF Len(text) = 0 \/ text[1] \notin DOMAIN DigitValue THEN acc
    ELSE LET lo == acc[2] * 10 + DigitValue[text[1]]
             hi == acc[1] * 10 + (lo \div Half)
         IN ReadDigits(Tail(text), <<hi % Half, lo % Half>>)

\* <<>> for NaN, else <<negative, hi, lo>>
parseInt(text) ==
    LET t == SkipSpace(text)
        signed == Len(t) > 0 /\ t[1] \in {"-", "+"}
        digits == IF signed THEN Tail(t) ELSE t
    IN IF Len(digits) = 0 \/ digits[1] \notin DOMAIN DigitValue THEN <<>>
       ELSE <<(signed /\ t[1] = "-"), ReadDigits(digits, <<0, 0>>)>>

\* variant: a number outside the 32-bit range is clamped to the nearest limit
ToInt32Clamped(num) ==
    IF num[2][1] >= Half \div 2
    THEN IF num[1] THEN -2147483647 - 1 ELSE 2147483647
    ELSE IF num[1] THEN - (num[2][1] * Half + num[2][2])
         ELSE num[2][1] * Half + num[2][2]

\* num | 0
ToInt32(num) ==
    LET hi == num[2][1]
        lo == num[2][2]
        nhi == IF ~num[1] THEN hi
               ELSE IF lo = 0 THEN (Half - hi) % Half ELSE Half - 1 - hi
        nlo == IF ~num[1] \/ lo = 0 THEN lo ELSE Half - lo
    IN IF nhi >= Half \div 2 THEN (nhi - Half) * Half + nlo ELSE nhi * Half + nlo

EditedValue(text) ==
    LET num == parseInt(text) IN IF num = <<>> THEN 0 ELSE ToInt32(num)

EditTexts == {<<"a">>, <<"1">>}

\* the blur handler of the cell `node` whose text is `text`
blur(s, node, text) == [s EXCEPT !.nodes[node].value = EditedValue(text)]

----------------------------------------------------------------------------
(* the driver *)

\* model bounds on one step() invocation
WillAllocate(s) ==
    /\ ~OutOfBounds(s, s.ip)
    /\ \/ CharAt(s.program, s.ip) = ">" /\ s.nodes[s.currentNode].right = Null
       \/ CharAt(s.program, s.ip) = "<" /\ s.nodes[s.currentNode].left = Null

StepAllowed(s, bound) ==
    /\ Len(calls) < bound
    /\ WillAllocate(s) => s.nodeCount < MaxNodes

Logged(s) == Append(calls, [at |-> s.ip, to |-> step(s).ip])

FreshTimer ==
    LET used == timers \cup {0} IN
    1 + CHOOSE m \in used : \A x \in used : x <= m

Init ==
    /\ programInput \in Programs
    /\ screwtape = NewInterpreter(programInput)
    /\ isRunning = FALSE
    /\ stepInterval = Null
    /\ timers = {}
    /\ editable = TRUE
    /\ calls = <<>>
    /\ idleCall = FALSE

\* a client of the core calls screwtape.step()
StepCallWithin(bound) ==
    /\ ~screwtape.terminated => StepAllowed(screwtape, bound)
    /\ screwtape' = step(screwtape)
    /\ calls' = IF ~screwtape.terminated THEN Logged(screwtape) ELSE calls
    /\ idleCall' = (idleCall \/ screwtape.terminated)
    /\ UNCHANGED <<programInput, isRunning, stepInterval, timers, editable>>

StepCall == StepCallWithin(MaxSteps)

\* stepExecution: runStep, then render
StepExecutionWithin(bound) ==
    /\ ~screwtape.terminated => StepAllowed(screwtape, bound)
    /\ screwtape' = runStep(screwtape)
    /\ calls' = IF ~screwtape.terminated THEN Logged(screwtape) ELSE calls
    /\ editable' = ~isRunning
    /\ UNCHANGED idleCall

StepClick ==
    /\ StepExecutionWithin(MaxSteps)
    /\ UNCHANGED <<programInput, isRunning, stepInterval, timers>>

\* pauseExecution
PauseExecution ==
    /\ isRunning' = FALSE
    /\ IF stepInterval # Null
       THEN timers' = timers \ {stepInterval} /\ stepInterval' = Null
       ELSE UNCHANGED <<timers, stepInterval>>

PauseClick ==
    /\ PauseExecution
    /\ UNCHANGED <<programInput, screwtape, editable, calls, idleCall>>

\* variant: runExecution lacks its `if (isRunning) return`
RunClickAgain ==
    /\ isRunning' = TRUE
    /\ stepInterval' = FreshTimer
    /\ timers' = timers \cup {FreshTimer}
    /\ UNCHANGED <<programInput, screwtape, editable, calls, idleCall>>

\* runExecution
RunClick ==
    /\ ~isRunning
    /\ isRunning' = TRUE
    /\ stepInterval' = FreshTimer
    /\ timers' = timers \cup {FreshTimer}
    /\ UNCHANGED <<programInput, screwtape, editable, calls, idleCall>>

\* variant: the callback steps but never looks at the termination flag
TimerTickNoPause ==
    /\ timers # {}
    /\ StepExecutionWithin(MaxSteps)
    /\ UNCHANGED <<isRunning, stepInterval, timers>>
    /\ UNCHANGED programInput

\* the interval callback
TimerTick ==
    /\ timers # {}
    /\ StepExecutionWithin(MaxSteps)
    /\ IF screwtape'.terminated
       THEN PauseExecution
       ELSE UNCHANGED <<isRunning, stepInterval, timers>>
    /\ UNCHANGED programInput

\* variant: reset forgets the running interval without clearing it
ResetClickKeepTimer ==
    /\ timers' = timers
    /\ stepInterval' = Null
    /\ isRunning' = FALSE
    /\ screwtape' = NewInterpreter(programInput)
    /\ editable' = TRUE
    /\ calls' = <<>>
    /\ idleCall' = FALSE
    /\ UNCHANGED programInput

\* reset
ResetClick ==
    /\ timers' = IF stepInterval # Null THEN timers \ {stepInterval} ELSE timers
    /\ stepInterval' = Null
    /\ isRunning' = FALSE
    /\ screwtape' = NewInterpreter(programInput)
    /\ editable' = TRUE
    /\ calls' = <<>>
    /\ idleCall' = FALSE
    /\ UNCHANGED programInput

AddLeftClick ==
    /\ ~isRunning
    /\ screwtape.nodeCount < MaxNodes
    /\ screwtape' = addCellLeft(screwtape)
    /\ editable' = ~isRunning
    /\ UNCHANGED <<programInput, isRunning, stepInterval, timers, calls, idleCall>>

AddRightClick ==
    /\ ~isRunning
    /\ screwtape.nodeCount < MaxNodes
    /\ screwtape' = addCellRight(screwtape)
    /\ editable' = ~isRunning
    /\ UNCHANGED <<programInput, isRunning, stepInterval, timers, calls, idleCall>>

\* blur of an editable cell showing `text`
CellBlurOf(texts) ==
    /\ editable
    /\ \E i \in 1..Len(RenderedNodes(screwtape)), text \in texts :
         screwtape' = blur(screwtape, RenderedNodes(screwtape)[i], text)
    /\ editable' = ~isRunning
    /\ UNCHANGED <<programInput, isRunning, stepInterval, timers, calls, idleCall>>

CellBlur == CellBlurOf(EditTexts)

\* the core under its editing collaborators: no auto-run
Next ==
    \/ StepCall
    \/ StepClick
    \/ ResetClick
    \/ AddLeftClick
    \/ AddRightClick
    \/ CellBlur

Spec == Init /\ [][Next]_vars

\* the whole page, auto-run included
\* the input handler of the speed slider: a running interval is replaced
SpeedInput ==
    /\ IF isRunning
       THEN LET kept == timers \ {stepInterval}
                used == kept \cup {0}
                fresh == 1 + CHOOSE m \in used : \A x \in used : x <= m
            IN /\ stepInterval' = fresh
               /\ timers' = kept \cup {fresh}
       ELSE UNCHANGED <<stepInterval, timers>>
    /\ UNCHANGED <<programInput, screwtape, isRunning, editable, calls, idleCall>>

\* programs for the driver: straight-line, looping and unbalanced ones
DriverPrograms == SeqsUpTo({"+", "[", "]"}, MaxProgLen)

InitDriver ==
    /\ programInput \in DriverPrograms
    /\ screwtape = NewInterpreter(programInput)
    /\ isRunning = FALSE
    /\ stepInterval = Null
    /\ timers = {}
    /\ editable = TRUE
    /\ calls = <<>>
    /\ idleCall = FALSE

NextDriver ==
    \/ Next
    \/ PauseClick
    \/ RunClick
    \/ TimerTick
    \/ SpeedInput

SpecDriver == InitDriver /\ [][NextDriver]_vars

----------------------------------------------------------------------------
(* auto-run left to itself: run requests, the slider and tape edits, but no
   pause, reset or manual step; a pending interval timer keeps firing *)

NextAuto ==
    \/ RunClick
    \/ TimerTick
    \/ SpeedInput
    \/ AddLeftClick
    \/ AddRightClick
    \/ CellBlur

SpecAuto == InitDriver /\ [][NextAuto]_vars /\ WF_vars(TimerTick)

----------------------------------------------------------------------------
(* the tape: programs that move and count, under the editing collaborators *)

TapePrograms == SeqsUpTo({">", "<", "+"}, MaxProgLen)

InitTape ==
    /\ programInput \in TapePrograms
    /\ screwtape = NewInterpreter(programInput)
    /\ isRunning = FALSE
    /\ stepInterval = Null
    /\ timers = {}
    /\ editable = TRUE
    /\ calls = <<>>
    /\ idleCall = FALSE

SpecTape == InitTape /\ [][Next]_vars

----------------------------------------------------------------------------
(* cell edits: texts that do not parse, that parse with blanks, signs and
   trailing characters, and that parse to numbers outside the 32-bit range,
   typed into the cells of a tape that a step may have grown *)

MaxEditLen == 2

\* each text with the value the cell must take
ParseCases ==
    {<<<<"a">>, 0>>,
     <<<<>>, 0>>,
     <<<<"-">>, 0>>,
     <<<<"4", "2", "9", "4", "9", "6", "7", "2", "9", "6">>, 0>>,
     <<<<" ", "5">>, 5>>,
     <<<<"5", "x">>, 5>>,
     <<<<"+", "5">>, 5>>,
     <<<<"-", "7">>, -7>>,
     <<<<"2", "1", "4", "7", "4", "8", "3", "6", "4", "8">>, -2147483647 - 1>>,
     <<<<"-", "2", "1", "4", "7", "4", "8", "3", "6", "4", "9">>, 2147483647>>,
     <<<<"4", "2", "9", "4", "9", "6", "7", "2", "9", "5">>, -1>>}

ParseTexts == {c[1] : c \in ParseCases}

EditPrograms == SeqsUpTo({">", "."}, MaxEditLen)

InitEdit ==
    /\ programInput \in EditPrograms
    /\ screwtape = NewInterpreter(programInput)
    /\ isRunning = FALSE
    /\ stepInterval = Null
    /\ timers = {}
    /\ editable = TRUE
    /\ calls = <<>>
    /\ idleCall = FALSE

CellBlurParse == CellBlurOf(ParseTexts)

NextEdit ==
    \/ StepClick
    \/ CellBlurParse
    \/ ResetClick

SpecEdit == InitEdit /\ [][NextEdit]_vars

----------------------------------------------------------------------------
(* bulk reinitialization of the tape, as the specification describes it:
   reinitializeFrom(values) and reinitializeTapeFromProgramOpcodes(mapping) *)

\* variant: an empty sequence still discards the tape, leaving one zero cell
reinitializeFromAlways(s, values) ==
    LET n == IF Len(values) = 0 THEN 1 ELSE Len(values) IN
    [s EXCEPT !.nodes = [i \in 0..(n - 1) |->
                           [value |-> IF Len(values) = 0 THEN 0 ELSE values[i + 1],
                            left |-> IF i = 0 THEN Null ELSE i - 1,
                            right |-> IF i = n - 1 THEN Null ELSE i + 1]],
              !.nodeCount = n,
              !.currentNode = 0,
              !.leftmostNode = 0,
              !.rightmostNode = n - 1]

\* discard the structure and build a tape holding `values` in order, the
\* cursor on its leftmost cell; no-op when `values` is empty
reinitializeFrom(s, values) ==
    IF Len(values) = 0 THEN s
    ELSE LET n == Len(values) IN
         [s EXCEPT !.nodes = [i \in 0..(n - 1) |->
                                [value |-> values[i + 1],
                                 left |-> IF i = 0 THEN Null ELSE i - 1,
                                 right |-> IF i = n - 1 THEN Null ELSE i + 1]],
                   !.nodeCount = n,
                   !.currentNode = 0,
                   !.leftmostNode = 0,
                   !.rightmostNode = n - 1]

\* the values of the program's characters under the mapping table, in
\* program order; a character the table lacks gives no value
RECURSIVE OpcodeValues(_, _)
OpcodeValues(program, mapping) ==
    IF Len(program) = 0 THEN <<>>
    ELSE (IF program[1] \in DOMAIN mapping THEN <<mapping[program[1]]>> ELSE <<>>)
         \o OpcodeValues(Tail(program), mapping)

reinitializeTapeFromProgramOpcodes(s, mapping) ==
    reinitializeFrom(s, OpcodeValues(s.program, mapping))

\* mapping tables over part or all of the characters used
Mappings == UNION {[D -> {2, 3}] : D \in SUBSET {">", "+"}}

ReinitPrograms == SeqsUpTo({">", "+"}, MaxProgLen)

InitReinit ==
    /\ programInput \in ReinitPrograms
    /\ screwtape = NewInterpreter(programInput)
    /\ isRunning = FALSE
    /\ stepInterval = Null
    /\ timers = {}
    /\ editable = TRUE
    /\ calls = <<>>
    /\ idleCall = FALSE

\* the driver's entry point, usable while not auto-running
Reinitialize ==
    /\ ~isRunning
    /\ \E mapping \in Mappings :
         screwtape' = reinitializeTapeFromProgramOpcodes(screwtape, mapping)
    /\ editable' = ~isRunning
    /\ UNCHANGED <<programInput, isRunning, stepInterval, timers, calls, idleCall>>

NextReinit ==
    \/ StepClick
    \/ AddLeftClick
    \/ AddRightClick
    \/ CellBlur
    \/ Reinitialize

SpecReinit == InitReinit /\ [][NextReinit]_vars

----------------------------------------------------------------------------
(* cell values: one-cell runs of '+', '-' and '.' with edits that type values
   at the edges of the printable range and of the 32-bit range *)

MaxValueLen == 2

ValuePrograms == SeqsUpTo({"+", "-", "."}, MaxValueLen)

ValueTexts ==
    {<<"a">>,
     <<"-", "1">>,
     <<"7">>,
     <<"3", "1">>,
     <<"3", "2">>,
     <<"1", "2", "6">>,
     <<"1", "2", "7">>,
     <<"2", "1", "4", "7", "4", "8", "3", "6", "4", "7">>,
     <<"-", "2", "1", "4", "7", "4", "8", "3", "6", "4", "8">>,
     <<"2", "1", "4", "7", "4", "8", "3", "6", "4", "8">>}

InitValue ==
    /\ programInput \in ValuePrograms
    /\ screwtape = NewInterpreter(programInput)
    /\ isRunning = FALSE
    /\ stepInterval = Null
    /\ timers = {}
    /\ editable = TRUE
    /\ calls = <<>>
    /\ idleCall = FALSE

CellBlurValue == CellBlurOf(ValueTexts)

NextValue ==
    \/ StepClick
    \/ CellBlurValue
    \/ ResetClick

SpecValue == InitValue /\ [][NextValue]_vars

----------------------------------------------------------------------------
(* plain runs: a fresh interpreter stepped to the end, nothing else touches it *)

\* every prefix holds at least as many '[' as ']', and the whole as many
RECURSIVE Depth(_)
Depth(p) ==
    IF Len(p) = 0 THEN 0
    ELSE Depth(SubSeq(p, 1, Len(p) - 1))
         + (IF p[Len(p)] = "[" THEN 1 ELSE IF p[Len(p)] = "]" THEN -1 ELSE 0)

Balanced(p) ==
    /\ Depth(p) = 0
    /\ \A k \in 1..Len(p) : Depth(SubSeq(p, 1, k)) >= 0

BalancedPrograms == {p \in SeqsUpTo({"[", "]"}, MaxBalLen) : Balanced(p)}

LoopProgram == <<"+", "+", "+", "+", "+", "+", "+", "+", "[", "-", "]">>

MoveProgram == <<">", "+", "<", "-">>

PrintProgram == <<"+", "+", "+", ".">>

RunPrograms == BalancedPrograms \cup {LoopProgram, MoveProgram, PrintProgram}

InitRun ==
    /\ programInput \in RunPrograms
    /\ screwtape = NewInterpreter(programInput)
    /\ isRunning = FALSE
    /\ stepInterval = Null
    /\ timers = {}
    /\ editable = TRUE
    /\ calls = <<>>
    /\ idleCall = FALSE

StepCallRun == StepCallWithin(MaxRunSteps)

StepClickRun ==
    /\ StepExecutionWithin(MaxRunSteps)
    /\ UNCHANGED <<programInput, isRunning, stepInterval, timers>>

NextRun ==
    \/ StepCallRun
    \/ StepClickRun

SpecRun == InitRun /\ [][NextRun]_vars

----------------------------------------------------------------------------
(* the bracket resolver alone: a program is typed, then reset() constructs *)

BracketPrograms == SeqsUpTo({"[", "]", "+"}, MaxBracketLen)

InitBracket ==
    /\ programInput \in BracketPrograms
    /\ screwtape = NewInterpreter(<<>>)
    /\ isRunning = FALSE
    /\ stepInterval = Null
    /\ timers = {}
    /\ editable = TRUE
    /\ calls = <<>>
    /\ idleCall = FALSE

NextBracket == ResetClick

SpecBracket == InitBracket /\ [][NextBracket]_vars

----------------------------------------------------------------------------
(* Properties *)

LastCall == calls[Len(calls)]

\* this transition is one step() invocation
Stepped == Len(calls') = Len(calls) + 1

InBounds(s) == 0 <= s.ip /\ s.ip < Len(s.program)

IsJump(e) == e.to < e.at

JumpCount == Cardinality({k \in 1..Len(calls) : IsJump(calls[k])})

SameTape(s, t) ==
    /\ s.nodes = t.nodes
    /\ s.currentNode = t.currentNode
    /\ s.nodeCount = t.nodeCount
    /\ s.leftmostNode = t.leftmostNode
    /\ s.rightmostNode = t.rightmostNode

\* C1: once the termination flag is true, step() and runStep() change nothing
\* of the interpreter: pointer, output, flag, cursor, cells and their values.
C1_TerminatedStepIsNoOp ==
    screwtape.terminated =>
        /\ step(screwtape) = screwtape
        /\ runStep(screwtape) = screwtape

\* step() was called on a terminated interpreter of a non-empty program, on
\* a tape that has grown
C1_Witness ==
    /\ Len(screwtape.program) > 0
    /\ screwtape.terminated
    /\ idleCall
    /\ screwtape.nodeCount > 1

\* C2: a ']' on a nonzero cell with a jump entry sets the pointer to the
\* matched '[' itself, leaving tape, output and the Running state alone; the
\* next step() executes that '[' as a no-op and moves the pointer to open + 1.
C2_TwoStepReentry ==
    [][/\ (/\ Stepped
           /\ InBounds(screwtape)
           /\ CharAt(screwtape.program, screwtape.ip) = "]"
           /\ CurrentValue(screwtape) # 0
           /\ screwtape.ip \in DOMAIN screwtape.bracketMap)
          => /\ screwtape'.ip = screwtape.bracketMap[screwtape.ip]
             /\ screwtape'.ip < screwtape.ip
             /\ CharAt(screwtape.program, screwtape'.ip) = "["
             /\ screwtape' = [screwtape EXCEPT !.ip = screwtape'.ip]
             /\ ~screwtape'.terminated
       /\ (Stepped /\ Len(calls) > 0 /\ IsJump(LastCall))
          => /\ screwtape.ip = LastCall.to
             /\ CharAt(screwtape.program, screwtape.ip) = "["
             /\ screwtape' = [screwtape EXCEPT !.ip = LastCall.to + 1]
      ]_vars

\* a backward jump was taken and the step after it ran the '['
C2_Witness ==
    /\ Len(calls) >= 2
    /\ IsJump(calls[Len(calls) - 1])
    /\ CharAt(screwtape.program, calls[Len(calls) - 1].at) = "]"
    /\ LastCall.at = calls[Len(calls) - 1].to
    /\ screwtape.ip = LastCall.at + 1

\* C3: a ']' on a zero cell, or one without a jump entry (even on a nonzero
\* cell), leaves tape and output alone and moves the pointer to p + 1.
C3_CloseFallsThrough ==
    [][(/\ Stepped
        /\ InBounds(screwtape)
        /\ CharAt(screwtape.program, screwtape.ip) = "]"
        /\ \/ CurrentValue(screwtape) = 0
           \/ screwtape.ip \notin DOMAIN screwtape.bracketMap)
       => /\ screwtape'.ip = screwtape.ip + 1
          /\ SameTape(screwtape', screwtape)
          /\ screwtape'.output = screwtape.output
      ]_vars

\* an unmatched ']' was executed on a nonzero cell and fell through
C3_Witness ==
    /\ Len(calls) > 0
    /\ LastCall.at < Len(screwtape.program)
    /\ CharAt(screwtape.program, LastCall.at) = "]"
    /\ LastCall.at \notin DOMAIN screwtape.bracketMap
    /\ LastCall.to = LastCall.at + 1
    /\ screwtape.ip = LastCall.to
    /\ CurrentValue(screwtape) # 0

\* C4: a '[' moves the pointer to exactly p + 1 whatever the cell holds and
\* leaves tape and output alone; no step moves the pointer forward by more
\* than one.
C4_OpenNeverSkips ==
    [][Stepped =>
        /\ screwtape'.ip <= screwtape.ip + 1
        /\ (InBounds(screwtape) /\ CharAt(screwtape.program, screwtape.ip) = "[")
           => /\ screwtape'.ip = screwtape.ip + 1
              /\ SameTape(screwtape', screwtape)
              /\ screwtape'.output = screwtape.output
      ]_vars

\* a matched '[' was executed on a zero cell
C4_Witness ==
    /\ Len(calls) > 0
    /\ LastCall.at < Len(screwtape.program)
    /\ CharAt(screwtape.program, LastCall.at) = "["
    /\ \E c \in DOMAIN screwtape.bracketMap : screwtape.bracketMap[c] = LastCall.at
    /\ screwtape.ip = LastCall.at + 1
    /\ CurrentValue(screwtape) = 0

MaxOf(S) == CHOOSE x \in S : \A y \in S : y <= x

\* the '[' to the left of c that no ']' before c has taken
PendingOpens(p, m, c) ==
    {o \in 0..(c - 1) : /\ CharAt(p, o) = "["
                        /\ \A c2 \in DOMAIN m : c2 < c => m[c2] # o}

\* C5: every ']' with a pending '[' to its left is mapped to the nearest such
\* '[', so matched pairs nest; for [[]] the table is exactly {2 -> 1, 3 -> 0}.
C5_NearestPendingOpen ==
    LET p == screwtape.program
        m == screwtape.bracketMap
    IN /\ \A c \in 0..(Len(p) - 1) :
            (CharAt(p, c) = "]" /\ PendingOpens(p, m, c) # {})
            => /\ c \in DOMAIN m
               /\ m[c] = MaxOf(PendingOpens(p, m, c))
       /\ \A c1, c2 \in DOMAIN m :
            c1 < c2 => (m[c2] > c1 \/ m[c2] < m[c1])
       /\ p = <<"[", "[", "]", "]">> => m = (2 :> 1) @@ (3 :> 0)

\* the interpreter was constructed from [[]]
C5_Witness ==
    /\ programInput = <<"[", "[", "]", "]">>
    /\ screwtape.program = programInput
    /\ DOMAIN screwtape.bracketMap = {2, 3}

\* size of the pending-opens stack after the first k characters
RECURSIVE StackSize(_, _)
StackSize(p, k) ==
    IF k = 0 THEN 0
    ELSE LET d == StackSize(p, k - 1) IN
         IF p[k] = "[" THEN d + 1
         ELSE IF p[k] = "]" /\ d > 0 THEN d - 1
         ELSE d

\* the '[' at o is still on the stack at the end of the pass
LeftOnStack(p, o) ==
    \A k \in (o + 1)..Len(p) : StackSize(p, k) > StackSize(p, o)

\* C6: an entry c -> o exists only for a ']' at c and a '[' at o < c; no two
\* entries share an open index; a ']' met on an empty stack has no entry; a
\* '[' left on the stack is in no entry; every program yields a table.
C6_TableWellFormed ==
    LET p == screwtape.program
        m == screwtape.bracketMap
        idx == 0..(Len(p) - 1)
    IN /\ DOMAIN m \subseteq idx
       /\ \A c \in DOMAIN m :
            /\ m[c] \in idx
            /\ CharAt(p, c) = "]"
            /\ CharAt(p, m[c]) = "["
            /\ m[c] < c
       /\ \A c1, c2 \in DOMAIN m : m[c1] = m[c2] => c1 = c2
       /\ \A c \in idx :
            (CharAt(p, c) = "]" /\ StackSize(p, c) = 0) => c \notin DOMAIN m
       /\ \A o \in idx :
            (CharAt(p, o) = "[" /\ LeftOnStack(p, o))
            => \A c \in DOMAIN m : m[c] # o

\* built from ][][ : an unmatched ']', one pair, and a '[' left on the stack
C6_Witness ==
    /\ programInput = <<"]", "[", "]", "[">>
    /\ screwtape.program = programInput
    /\ DOMAIN screwtape.bracketMap = {2}

\* step() calls that executed the ']' of ++++++++[-]
CloseEvaluations == {k \in 1..Len(calls) : calls[k].at = 10}

OneZeroCell == 0 :> TapeNode(0)

\* C7: running ++++++++[-] from a fresh interpreter takes the backward jump
\* exactly seven times, reaches Terminated (with the 32nd step() call), and
\* ends with its single cell at 0.
C7_LoopJumpsSevenTimes ==
    programInput = LoopProgram =>
        /\ JumpCount <= 7
        /\ screwtape.terminated <=> Len(calls) >= 32
        /\ screwtape.terminated => /\ JumpCount = 7
                                   /\ screwtape.nodes = OneZeroCell

\* the run of ++++++++[-] has terminated
C7_Witness ==
    /\ programInput = LoopProgram
    /\ screwtape.terminated
    /\ JumpCount = 7

\* C8 as stated: the evaluation of ']' that sees 0 and falls through is the
\* ninth evaluation of ']' in the run of ++++++++[-].
C8_NinthEvaluationFallsThrough ==
    (/\ programInput = LoopProgram
     /\ Len(calls) > 0
     /\ LastCall.at = 10
     /\ LastCall.to = 11)
    => Cardinality(CloseEvaluations) = 9

\* C8 amended: that evaluation is the eighth evaluation of ']' in the run.
C8_EighthEvaluationFallsThrough ==
    (/\ programInput = LoopProgram
     /\ Len(calls) > 0
     /\ LastCall.at = 10
     /\ LastCall.to = 11)
    => /\ Cardinality(CloseEvaluations) = 8
       /\ CurrentValue(screwtape) = 0

\* the ']' of ++++++++[-] has just fallen through
C8_Witness ==
    /\ programInput = LoopProgram
    /\ Len(calls) > 0
    /\ LastCall.at = 10
    /\ LastCall.to = 11

\* C9 as stated: a program of balanced brackets only takes no backward jump,
\* executes each instruction exactly once, and is Terminated after exactly
\* len(program) steps.
C9_BalancedTerminatesAfterLenSteps ==
    programInput \in BalancedPrograms =>
        /\ JumpCount = 0
        /\ \A k \in 1..Len(calls) : k <= Len(programInput) => calls[k].at = k - 1
        /\ screwtape.terminated <=> Len(calls) >= Len(programInput)

\* C9 amended: the same for non-empty programs; the empty program becomes
\* Terminated with the first step() call, which executes no instruction.
C9_BalancedTerminatesNonEmpty ==
    programInput \in BalancedPrograms =>
        /\ JumpCount = 0
        /\ \A k \in 1..Len(calls) : k <= Len(programInput) => calls[k].at = k - 1
        /\ Len(programInput) > 0
           => (screwtape.terminated <=> Len(calls) >= Len(programInput))
        /\ Len(programInput) = 0
           => (screwtape.terminated <=> Len(calls) >= 1)

\* a nested balanced program has run to its end
C9_Witness ==
    /\ programInput = <<"[", "[", "]", "]", "[", "]">>
    /\ screwtape.terminated
    /\ Len(calls) = 6

\* the cells met going right from cur, to the end of the chain
RECURSIVE ChainRight(_, _, _)
ChainRight(s, cur, fuel) ==
    IF cur = Null \/ fuel = 0 THEN <<>>
    ELSE <<cur>> \o ChainRight(s, s.nodes[cur].right, fuel - 1)

\* C10: leftmostNode has no left neighbour, rightmostNode no right one, and
\* the walk from leftmostNode via right links ends at rightmostNode and
\* visits every materialized cell, the current one included, exactly once.
C10_EndsAreTrueEnds ==
    LET s == screwtape
        w == ChainRight(s, s.leftmostNode, s.nodeCount + 1)
    IN /\ s.nodes[s.leftmostNode].left = Null
       /\ s.nodes[s.rightmostNode].right = Null
       /\ Len(w) = s.nodeCount
       /\ {w[k] : k \in 1..Len(w)} = DOMAIN s.nodes
       /\ w[Len(w)] = s.rightmostNode
       /\ s.currentNode \in DOMAIN s.nodes
       /\ RenderedNodes(s) = w

\* cells were added on both sides, by step() and by an add-cell call
C10_Witness ==
    /\ screwtape.nodeCount >= 3
    /\ Len(calls) > 0
    /\ screwtape.leftmostNode # 0
    /\ screwtape.rightmostNode # 0
    /\ screwtape.currentNode # 0

\* the cells met going left from cur, to the end of the chain
RECURSIVE ChainLeft(_, _, _)
ChainLeft(s, cur, fuel) ==
    IF cur = Null \/ fuel = 0 THEN <<>>
    ELSE <<cur>> \o ChainLeft(s, s.nodes[cur].left, fuel - 1)

\* C11: the tape is never empty; a.right = b exactly when b.left = a; and
\* following right (or left) links from a cell never comes back to it.
C11_LinksConsistent ==
    LET s == screwtape
        cells == DOMAIN s.nodes
    IN /\ cells # {}
       /\ cells = 0..(s.nodeCount - 1)
       /\ \A a \in cells :
            /\ s.nodes[a].right \in cells \cup {Null}
            /\ s.nodes[a].left \in cells \cup {Null}
       /\ \A a, b \in cells : s.nodes[a].right = b <=> s.nodes[b].left = a
       /\ \A a \in cells :
            LET r == ChainRight(s, s.nodes[a].right, s.nodeCount + 1)
                l == ChainLeft(s, s.nodes[a].left, s.nodeCount + 1)
            IN /\ Len(r) <= s.nodeCount
               /\ Len(l) <= s.nodeCount
               /\ \A k \in 1..Len(r) : r[k] # a
               /\ \A k \in 1..Len(l) : l[k] # a

\* a cell was added at each end by the add-cell calls, none by step()
C11_Witness ==
    /\ screwtape.nodeCount = 3
    /\ Len(calls) > 0
    /\ screwtape.currentNode = 0
    /\ screwtape.nodes[0].left # Null
    /\ screwtape.nodes[0].right # Null
    /\ \A k \in 1..Len(calls) :
         /\ calls[k].at < Len(screwtape.program)
         /\ CharAt(screwtape.program, calls[k].at) \notin {">", "<"}

\* the largest N of the N-right-then-N-left round trips examined
MaxMoves == 2

\* N '>' followed by N '<'
OutAndBack(n) == [i \in 1..(2 * n) |-> IF i <= n THEN ">" ELSE "<"]

RECURSIVE StepTimes(_, _)
StepTimes(s, k) == IF k = 0 THEN s ELSE StepTimes(step(s), k - 1)

\* the tape of s after the instructions of fragment are executed on it
Executed(s, fragment) ==
    StepTimes([s EXCEPT !.program = fragment, !.ip = 0, !.terminated = FALSE,
                        !.bracketMap = buildBracketMap(fragment)],
              Len(fragment))

\* the number of cells to the right of the cursor
CellsToRight(s) ==
    Len(ChainRight(s, s.nodes[s.currentNode].right, s.nodeCount + 1))

\* the round trip returns to the start cell and keeps every old value and
\* link between old cells; the new cells hold 0 and lie right of the start
RoundTripKeeps(s, t) ==
    /\ t.currentNode = s.currentNode
    /\ t.output = s.output
    /\ DOMAIN s.nodes \subseteq DOMAIN t.nodes
    /\ \A c \in DOMAIN s.nodes : t.nodes[c].value = s.nodes[c].value
    /\ \A c \in DOMAIN s.nodes : t.nodes[c].left = s.nodes[c].left
    /\ \A c \in DOMAIN s.nodes :
         s.nodes[c].right # Null => t.nodes[c].right = s.nodes[c].right
    /\ LET right == ChainRight(t, t.nodes[t.currentNode].right, t.nodeCount + 1)
       IN \A c \in DOMAIN t.nodes \ DOMAIN s.nodes :
            /\ t.nodes[c].value = 0
            /\ \E k \in 1..Len(right) : right[k] = c

\* C12 as stated: from every reachable tape, N '>' then N '<' return the
\* cursor to the start cell, change no old value and create exactly N cells.
C12_RoundTripAddsN ==
    \A n \in 0..MaxMoves :
        LET t == Executed(screwtape, OutAndBack(n))
        IN /\ RoundTripKeeps(screwtape, t)
           /\ t.nodeCount = screwtape.nodeCount + n

\* C12: from every reachable tape, N '>' then N '<' return the cursor to the
\* start cell, change no old value, and create N minus the number of cells
\* already right of the start cell (none when that is negative): exactly N
\* when the start cell is the rightmost one.
C12_RoundTripAddsMissing ==
    \A n \in 0..MaxMoves :
        LET t == Executed(screwtape, OutAndBack(n))
            had == CellsToRight(screwtape)
        IN /\ RoundTripKeeps(screwtape, t)
           /\ t.nodeCount = screwtape.nodeCount
                            + (IF n > had THEN n - had ELSE 0)
           /\ CellsToRight(t) = (IF n > had THEN n ELSE had)

\* '>' then '<' has run and the cursor is back on a start cell that has two
\* cells to its right, one more than the single '>' can have created
C12_Witness ==
    /\ screwtape.program = OutAndBack(1)
    /\ Len(calls) = 2
    /\ calls[1].at = 0
    /\ calls[2].at = 1
    /\ screwtape.currentNode = 0
    /\ CellsToRight(screwtape) = 2

\* t is s with one more cell, holding 0, and with the old cells as they were
\* except for the fields the caller lists
OneCellMore(s, t) ==
    /\ t.nodeCount = s.nodeCount + 1
    /\ DOMAIN t.nodes = DOMAIN s.nodes \cup {s.nodeCount}
    /\ s.nodeCount \notin DOMAIN s.nodes
    /\ t.nodes[s.nodeCount].value = 0
    /\ \A c \in DOMAIN s.nodes : t.nodes[c].value = s.nodes[c].value

\* C13: '>' (resp. '<') on a cell without a right (left) neighbour creates
\* exactly one cell holding 0, linked both ways to the old current cell and
\* made the rightmost (leftmost) end; on a cell with that neighbour it creates
\* none; either way the cursor ends on the neighbour and the step completes.
C13_MoveAllocatesAtEnd ==
    LET s == screwtape
        t == step(screwtape)
        cur == s.currentNode
        n == s.nodeCount
    IN /\ (InBounds(s) /\ CharAt(s.program, s.ip) = ">") =>
            /\ t.ip = s.ip + 1
            /\ t.output = s.output
            /\ t.leftmostNode = s.leftmostNode
            /\ t.currentNode = t.nodes[cur].right
            /\ t.currentNode # Null
            /\ IF s.nodes[cur].right = Null
               THEN /\ OneCellMore(s, t)
                    /\ t.nodes[n] = [TapeNode(0) EXCEPT !.left = cur]
                    /\ t.nodes[cur] = [s.nodes[cur] EXCEPT !.right = n]
                    /\ \A c \in DOMAIN s.nodes \ {cur} : t.nodes[c] = s.nodes[c]
                    /\ t.rightmostNode = n
               ELSE /\ t.nodes = s.nodes
                    /\ t.nodeCount = s.nodeCount
                    /\ t.rightmostNode = s.rightmostNode
       /\ (InBounds(s) /\ CharAt(s.program, s.ip) = "<") =>
            /\ t.ip = s.ip + 1
            /\ t.output = s.output
            /\ t.rightmostNode = s.rightmostNode
            /\ t.currentNode = t.nodes[cur].left
            /\ t.currentNode # Null
            /\ IF s.nodes[cur].left = Null
               THEN /\ OneCellMore(s, t)
                    /\ t.nodes[n] = [TapeNode(0) EXCEPT !.right = cur]
                    /\ t.nodes[cur] = [s.nodes[cur] EXCEPT !.left = n]
                    /\ \A c \in DOMAIN s.nodes \ {cur} : t.nodes[c] = s.nodes[c]
                    /\ t.leftmostNode = n
               ELSE /\ t.nodes = s.nodes
                    /\ t.nodeCount = s.nodeCount
                    /\ t.leftmostNode = s.leftmostNode

\* '<' then '>' have run: the cursor went to the left end and came back onto
\* the existing start cell, which is still the right end
C13_Witness ==
    /\ screwtape.program = <<"<", ">">>
    /\ Len(calls) = 2
    /\ calls[1] = [at |-> 0, to |-> 1]
    /\ calls[2] = [at |-> 1, to |-> 2]
    /\ screwtape.nodeCount = 2
    /\ screwtape.currentNode = 0
    /\ screwtape.leftmostNode = 1
    /\ screwtape.rightmostNode = 0

\* t differs from s in the tape only
SameControl(s, t) ==
    /\ t.program = s.program
    /\ t.ip = s.ip
    /\ t.output = s.output
    /\ t.terminated = s.terminated
    /\ t.bracketMap = s.bracketMap
    /\ t.currentNode = s.currentNode

\* C14: addCellLeft() (addCellRight()) in any reachable state adds exactly
\* one cell holding 0, which becomes the leftmost (rightmost) end of the
\* chain, and leaves the cursor, the old values, ip, the output and
\* terminated as they were.
C14_AddCellExtendsEnd ==
    LET s == screwtape
        n == s.nodeCount
        l == addCellLeft(s)
        r == addCellRight(s)
    IN /\ SameControl(s, l)
       /\ OneCellMore(s, l)
       /\ l.nodes[n] = [TapeNode(0) EXCEPT !.right = s.leftmostNode]
       /\ l.nodes[s.leftmostNode] = [s.nodes[s.leftmostNode] EXCEPT !.left = n]
       /\ \A c \in DOMAIN s.nodes \ {s.leftmostNode} : l.nodes[c] = s.nodes[c]
       /\ l.leftmostNode = n
       /\ l.rightmostNode = s.rightmostNode
       /\ Len(ChainRight(l, l.leftmostNode, n + 2)) = n + 1
       /\ SameControl(s, r)
       /\ OneCellMore(s, r)
       /\ r.nodes[n] = [TapeNode(0) EXCEPT !.left = s.rightmostNode]
       /\ r.nodes[s.rightmostNode] = [s.nodes[s.rightmostNode] EXCEPT !.right = n]
       /\ \A c \in DOMAIN s.nodes \ {s.rightmostNode} : r.nodes[c] = s.nodes[c]
       /\ r.rightmostNode = n
       /\ r.leftmostNode = s.leftmostNode
       /\ Len(ChainLeft(r, r.rightmostNode, n + 2)) = n + 1

\* one '+' has run on an edited cell, and a cell was added at each end of
\* the one-cell tape
C14_Witness ==
    /\ screwtape.ip = 1
    /\ CurrentValue(screwtape) = 2
    /\ Len(calls) = 1
    /\ screwtape.nodeCount = 3
    /\ screwtape.currentNode = 0
    /\ screwtape.leftmostNode # 0
    /\ screwtape.rightmostNode # 0
    /\ screwtape.rightmostNode # screwtape.leftmostNode

\* the cell under the cursor after step(), when the instruction at ip is ch
AfterInstr(s, ch) ==
    IF InBounds(s) /\ CharAt(s.program, s.ip) = ch THEN CurrentValue(step(s))
    ELSE Null

\* C15: cell values wrap as 32-bit signed integers: '+' on 2147483647 gives
\* -2147483648, '-' on -2147483648 gives 2147483647, elsewhere they add and
\* subtract one; after any steps and cell edits every value is in
\* [-2147483648, 2147483647].
C15_ValuesWrap ==
    LET s == screwtape
        v == CurrentValue(screwtape)
        lowest == -2147483647 - 1
        highest == 2147483647
    IN /\ \A c \in DOMAIN s.nodes :
            s.nodes[c].value >= lowest /\ s.nodes[c].value <= highest
       /\ (InBounds(s) /\ CharAt(s.program, s.ip) = "+") =>
            /\ v = highest => AfterInstr(s, "+") = lowest
            /\ v # highest => AfterInstr(s, "+") = v + 1
       /\ (InBounds(s) /\ CharAt(s.program, s.ip) = "-") =>
            /\ v = lowest => AfterInstr(s, "-") = highest
            /\ v # lowest => AfterInstr(s, "-") = v - 1

\* '+' has just run on a cell that now holds the lowest value: it wrapped
C15_Witness ==
    /\ screwtape.program = <<"+">>
    /\ Len(calls) = 1
    /\ screwtape.terminated
    /\ CurrentValue(screwtape) = -2147483647 - 1

\* C16: running >+<- from a fresh interpreter reaches Terminated (with the
\* fourth step() call) with exactly two cells: the start cell holds -1, the
\* cell to its right holds 1, and the cursor is on the start cell.
C16_MoveProgramResult ==
    programInput = MoveProgram =>
        /\ screwtape.terminated <=> Len(calls) >= 4
        /\ Len(calls) <= 4
        /\ screwtape.terminated =>
             /\ screwtape.nodeCount = 2
             /\ DOMAIN screwtape.nodes = {0, 1}
             /\ screwtape.nodes[0] = [TapeNode(-1) EXCEPT !.right = 1]
             /\ screwtape.nodes[1] = [TapeNode(1) EXCEPT !.left = 0]
             /\ screwtape.currentNode = 0
             /\ screwtape.leftmostNode = 0
             /\ screwtape.rightmostNode = 1

\* the run of >+<- has terminated
C16_Witness ==
    /\ programInput = MoveProgram
    /\ screwtape.terminated
    /\ screwtape.ip = 4

\* C17: running +++. from a fresh interpreter reaches Terminated after four
\* steps with a single cell holding 3 and an output of exactly one token,
\* the symbolic (not literal) token of value 3.
C17_PrintProgramResult ==
    programInput = PrintProgram =>
        /\ screwtape.terminated <=> Len(calls) >= 4
        /\ Len(calls) <= 4
        /\ Len(calls) < 4 => screwtape.output = <<>>
        /\ screwtape.terminated =>
             /\ screwtape.nodes = (0 :> TapeNode(3))
             /\ screwtape.currentNode = 0
             /\ Len(screwtape.output) = 1
             /\ screwtape.output[1].kind = "nonprint"
             /\ screwtape.output[1] = [kind |-> "nonprint", number |-> 3]

\* the run of +++. has terminated
C17_Witness ==
    /\ programInput = PrintProgram
    /\ screwtape.terminated
    /\ screwtape.output # <<>>

\* the values on which formatChar is tabulated
FormatValues == (-3..130) \cup {255, 256, 2147483647, -2147483647 - 1}

\* the token of value v is the literal of v
IsLiteral(tok, v) == tok = [kind |-> "char", code |-> v]

\* the token of value v is symbolic: named for six codes, else the number
IsSymbolic(tok, v) ==
    /\ tok.kind = "nonprint"
    /\ v = 0 => tok = [kind |-> "nonprint", name |-> "NUL"]
    /\ v = 7 => tok = [kind |-> "nonprint", name |-> "BEL"]
    /\ v = 8 => tok = [kind |-> "nonprint", name |-> "BS"]
    /\ v = 9 => tok = [kind |-> "nonprint", name |-> "TAB"]
    /\ v = 10 => tok = [kind |-> "nonprint", name |-> "LF"]
    /\ v = 13 => tok = [kind |-> "nonprint", name |-> "CR"]
    /\ v \notin {0, 7, 8, 9, 10, 13} => tok = [kind |-> "nonprint", number |-> v]

\* C18: '.' appends exactly one token, formatChar(current value), to the end
\* of the output and advances ip by one; formatChar gives the one-character
\* literal exactly when 32 <= value <= 126, else a symbolic token: named for
\* 0, 7, 8, 9, 10, 13, and carrying the number for every other value,
\* negative ones included.
C18_DotAppendsToken ==
    LET s == screwtape
        t == step(screwtape)
        v == CurrentValue(screwtape)
    IN /\ \A c \in FormatValues :
            IF 32 <= c /\ c <= 126 THEN IsLiteral(formatChar(c), c)
            ELSE IsSymbolic(formatChar(c), c)
       /\ (InBounds(s) /\ CharAt(s.program, s.ip) = ".") =>
            /\ Len(t.output) = Len(s.output) + 1
            /\ SubSeq(t.output, 1, Len(s.output)) = s.output
            /\ t.output[Len(t.output)] = formatChar(v)
            /\ IF 32 <= v /\ v <= 126
               THEN IsLiteral(t.output[Len(t.output)], v)
               ELSE IsSymbolic(t.output[Len(t.output)], v)
            /\ t.ip = s.ip + 1
            /\ t.nodes = s.nodes
            /\ t.currentNode = s.currentNode

\* '.' ran on 32 and then on -1: a literal space, then the token of -1
C18_Witness ==
    /\ screwtape.program = <<".", ".">>
    /\ Len(calls) = 2
    /\ Len(screwtape.output) = 2
    /\ screwtape.output[1] = [kind |-> "char", code |-> 32]
    /\ screwtape.output[2] = [kind |-> "nonprint", number |-> -1]

\* C19: step() on a character that is none of + - > < . [ ] leaves the tape,
\* the cursor and the output unchanged and advances ip by exactly one; it
\* enters no error state: terminated is set only if ip has reached the end.
C19_OtherCharIsSkipped ==
    LET s == screwtape
        t == step(screwtape)
    IN (InBounds(s) /\ CharAt(s.program, s.ip) \notin {"+", "-", ">", "<", ".", "[", "]"}) =>
         /\ SameTape(s, t)
         /\ t.nodes = s.nodes
         /\ t.nodeCount = s.nodeCount
         /\ t.currentNode = s.currentNode
         /\ t.leftmostNode = s.leftmostNode
         /\ t.rightmostNode = s.rightmostNode
         /\ t.output = s.output
         /\ t.program = s.program
         /\ t.ip = s.ip + 1
         /\ t.terminated <=> t.ip >= Len(t.program)

\* a skipped character was the last step() call, on a tape of two cells with
\* an edited value, and the run goes on
C19_Witness ==
    /\ Len(calls) = 1
    /\ LastCall = [at |-> 0, to |-> 1]
    /\ CharAt(screwtape.program, 0) = "x"
    /\ ~screwtape.terminated
    /\ screwtape.nodeCount = 2
    /\ CurrentValue(screwtape) = 1

\* s is the fresh interpreter of program
IsFresh(s, program) ==
    /\ s.program = program
    /\ s.ip = 0
    /\ s.output = <<>>
    /\ s.terminated = FALSE
    /\ s.nodeCount = 1
    /\ DOMAIN s.nodes = {s.currentNode}
    /\ s.nodes[s.currentNode] = [value |-> 0, left |-> Null, right |-> Null]
    /\ s.leftmostNode = s.currentNode
    /\ s.rightmostNode = s.currentNode

\* C20: the constructor on any program, and reset() from any state of the
\* driver, give the fresh state: ip 0, empty output, one cell holding 0 that
\* is current, leftmost and rightmost, terminated false; after reset()
\* auto-run is off and no timer is pending.
C20_ResetYieldsFresh ==
    /\ \A p \in Programs \cup DriverPrograms : IsFresh(NewInterpreter(p), p)
    /\ IsFresh(screwtape, programInput)
    /\ [][ResetClick => /\ IsFresh(screwtape', programInput')
                        /\ ~isRunning'
                        /\ stepInterval' = Null
                        /\ timers' = {}]_vars

\* a state reset() is about to clear: auto-run is on with its timer pending,
\* steps have run and the tape has grown
C20_Witness ==
    /\ isRunning
    /\ stepInterval # Null
    /\ stepInterval \in timers
    /\ screwtape.ip > 0
    /\ screwtape.nodeCount > 1
    /\ Len(calls) > 1
    /\ ENABLED ResetClick

\* C21: an edit whose text does not parse as a number sets the cell to 0,
\* one that parses sets it to the parsed integer reduced to 32-bit signed;
\* only the edited cell changes, and the cursor, ip, the output and
\* terminated are as before.
C21_EditSetsParsedValue ==
    LET s == screwtape IN
    \A c \in DOMAIN s.nodes, case \in ParseCases :
        LET t == blur(s, c, case[1]) IN
        /\ parseInt(case[1]) = <<>> => t.nodes[c].value = 0
        /\ t.nodes[c].value = case[2]
        /\ t.nodes[c].left = s.nodes[c].left
        /\ t.nodes[c].right = s.nodes[c].right
        /\ DOMAIN t.nodes = DOMAIN s.nodes
        /\ \A d \in DOMAIN s.nodes \ {c} : t.nodes[d] = s.nodes[d]
        /\ SameControl(s, t)
        /\ t.nodeCount = s.nodeCount
        /\ t.leftmostNode = s.leftmostNode
        /\ t.rightmostNode = s.rightmostNode

\* after a step that printed and a move, the cell left behind holds the
\* wrapped value of a typed 2147483648 and the current cell a parsed -7
C21_Witness ==
    /\ screwtape.program = <<".", ">">>
    /\ Len(calls) = 2
    /\ Len(screwtape.output) = 1
    /\ screwtape.nodeCount = 2
    /\ screwtape.currentNode # 0
    /\ screwtape.nodes[0].value = -2147483647 - 1
    /\ CurrentValue(screwtape) = -7

\* the values of the cells from the leftmost one rightwards
TapeValues(s) ==
    LET cells == ChainRight(s, s.leftmostNode, s.nodeCount + 1)
    IN [k \in 1..Len(cells) |-> s.nodes[cells[k]].value]

\* C22: reinitializeTapeFromProgramOpcodes with an empty resulting value
\* sequence leaves the tape (cells, values, end markers) and the cursor as
\* they were; with a non-empty one the tape holds exactly those values in
\* order and the cursor is on the new leftmost cell.
C22_ReinitializeEmptyIsNoOp ==
    \A mapping \in Mappings :
        LET s == screwtape
            values == OpcodeValues(s.program, mapping)
            t == reinitializeTapeFromProgramOpcodes(s, mapping)
        IN /\ Len(values) = 0 => SameTape(s, t)
           /\ Len(values) > 0 =>
                /\ TapeValues(t) = values
                /\ t.nodeCount = Len(values)
                /\ Cardinality(DOMAIN t.nodes) = Len(values)
                /\ t.currentNode = t.leftmostNode
                /\ t.nodes[t.leftmostNode].left = Null
                /\ t.nodes[t.rightmostNode].right = Null
           /\ t.ip = s.ip
           /\ t.output = s.output
           /\ t.program = s.program

\* '>' has run, so the tape had two cells; it now holds the one value 3 that
\* the table gives for the program's only character
C22_Witness ==
    /\ screwtape.program = <<">">>
    /\ Len(calls) = 1
    /\ screwtape.nodeCount = 1
    /\ TapeValues(screwtape) = <<3>>

\* C23 as stated: in every reachable state, from construction on, terminated
\* is true exactly when ip is outside [0, len(program)), the empty program
\* before its first step() included.
C23_TerminatedIffOutside ==
    screwtape.terminated <=> ~InBounds(screwtape)

\* C23: terminated is true exactly when ip is outside [0, len(program)),
\* except for the empty program between construction and its first step():
\* there ip = 0 = len(program) and terminated is still false.
C23_TerminatedIffOutsideOnceStepped ==
    IF Len(screwtape.program) = 0 /\ Len(calls) = 0
    THEN ~screwtape.terminated /\ screwtape.ip = 0
    ELSE screwtape.terminated <=> ~InBounds(screwtape)

\* the empty program has had its first step() and is terminated at ip 0
C23_Witness ==
    /\ screwtape.program = <<>>
    /\ Len(calls) = 1
    /\ LastCall = [at |-> 0, to |-> 0]
    /\ screwtape.terminated
    /\ screwtape.ip = 0

\* C24: in every interleaving of the driver's events, no cell value is
\* changed by an external edit and no cell is inserted by addCellLeft or
\* addCellRight while isRunning is true.
C24_NoTapeEditWhileRunning ==
    [][isRunning => /\ ~(CellBlur /\ screwtape'.nodes # screwtape.nodes)
                    /\ ~AddLeftClick
                    /\ ~AddRightClick]_vars

\* C25: each timer tick performs at most one step(); the tick that finds the
\* interpreter terminated after its step clears the timer and sets isRunning
\* to false in that same tick, so that no tick can fire until run is
\* requested again; hence auto-run on a terminated interpreter, and on a
\* program that terminates (one without jump entries), eventually stops.
C25_TickStepsOnceAndStops ==
    /\ [][TimerTick =>
            /\ Len(calls') <= Len(calls) + 1
            /\ screwtape' \in {screwtape, step(screwtape)}
            /\ screwtape'.terminated =>
                 /\ ~isRunning'
                 /\ stepInterval' = Null
                 /\ timers' = {}
            /\ ~screwtape'.terminated =>
                 UNCHANGED <<isRunning, stepInterval, timers>>]_vars
    /\ (isRunning /\ screwtape.terminated) ~> ~isRunning
    /\ (isRunning /\ DOMAIN screwtape.bracketMap = {}) ~> ~isRunning

\* auto-run has stopped by itself: the last render was made by a tick while
\* isRunning was still true, and that tick found the program terminated
C25_Witness ==
    /\ ~isRunning
    /\ ~editable
    /\ timers = {}
    /\ screwtape.terminated
    /\ Len(calls) = 2
    /\ Len(screwtape.program) = 2

\* the links between the cells of s are as they are in t
SameLinks(s, t) ==
    /\ t.nodeCount = s.nodeCount
    /\ DOMAIN t.nodes = DOMAIN s.nodes
    /\ \A c \in DOMAIN s.nodes : /\ t.nodes[c].left = s.nodes[c].left
                                 /\ t.nodes[c].right = s.nodes[c].right
    /\ t.leftmostNode = s.leftmostNode
    /\ t.rightmostNode = s.rightmostNode

\* C26: a step changes only what its instruction names: '+' and '-' only
\* the current cell's value, by one with wraparound; '>' and '<' only the
\* cursor, adding at most one zero cell and changing no existing value; '.'
\* only the output; '[', ']' and other characters neither tape nor output;
\* and no step changes the program or the jump table.
C26_StepFrame ==
    LET s == screwtape
        t == step(screwtape)
        v == CurrentValue(screwtape)
        ch == IF InBounds(screwtape) THEN CharAt(screwtape.program, screwtape.ip)
              ELSE "end"
    IN /\ t.program = s.program
       /\ t.bracketMap = s.bracketMap
       /\ ch = "end" => t = [s EXCEPT !.terminated = TRUE]
       /\ ch \in {"+", "-"} =>
            /\ SameLinks(s, t)
            /\ t.currentNode = s.currentNode
            /\ t.output = s.output
            /\ \A c \in DOMAIN s.nodes \ {s.currentNode} :
                 t.nodes[c].value = s.nodes[c].value
            /\ ch = "+" => CurrentValue(t) =
                 (IF v = 2147483647 THEN -2147483647 - 1 ELSE v + 1)
            /\ ch = "-" => CurrentValue(t) =
                 (IF v = -2147483647 - 1 THEN 2147483647 ELSE v - 1)
       /\ ch \in {">", "<"} =>
            /\ t.output = s.output
            /\ \A c \in DOMAIN s.nodes : t.nodes[c].value = s.nodes[c].value
            /\ t.nodeCount \in {s.nodeCount, s.nodeCount + 1}
            /\ Cardinality(DOMAIN t.nodes) = t.nodeCount
            /\ \A c \in DOMAIN t.nodes \ DOMAIN s.nodes : t.nodes[c].value = 0
            /\ t.currentNode # s.currentNode
       /\ ch = "." =>
            /\ SameTape(s, t)
            /\ Len(t.output) = Len(s.output) + 1
       /\ ch \notin {"+", "-", ">", "<", ".", "end"} =>
            /\ SameTape(s, t)
            /\ t.output = s.output

\* '.' and then '-' have run: one token in the output and -1 in the cell
C26_Witness ==
    /\ screwtape.program = <<".", "-">>
    /\ Len(calls) = 2
    /\ Len(screwtape.output) = 1
    /\ CurrentValue(screwtape) = -1
    /\ screwtape.nodeCount = 1

\* C27: in every reachable state of the driver isRunning is true exactly
\* when an interval timer is pending, at most one is pending, and it is the
\* one stepInterval holds; a run request while running creates no second
\* timer.
C27_RunningIffOneTimer ==
    /\ isRunning <=> timers # {}
    /\ Cardinality(timers) <= 1
    /\ timers = (IF stepInterval = Null THEN {} ELSE {stepInterval})
    /\ isRunning => ~ENABLED RunClick

\* auto-run is on, a step has run and rendered the cells read-only, the
\* program goes on and its single timer is pending
C27_Witness ==
    /\ isRunning
    /\ timers = {stepInterval}
    /\ ~editable
    /\ Len(calls) > 0
    /\ ~screwtape.terminated

\* no '[' stands before a ']': every ']' of the program is unmatched
NoMatchedClose(program) ==
    \A i, j \in 1..Len(program) :
        i < j => ~(program[i] = "[" /\ program[j] = "]")

\* C28: for a program in which no ']' has a jump entry, whatever the cell
\* values and edits, the k-th step() executes the instruction at index k - 1
\* and the engine is Terminated after exactly len(program) steps, or after
\* exactly one step when the program is empty.
C28_StraightLineRun ==
    NoMatchedClose(screwtape.program) =>
        /\ DOMAIN screwtape.bracketMap = {}
        /\ Len(screwtape.program) > 0 =>
             /\ \A k \in 1..Len(calls) : calls[k] = [at |-> k - 1, to |-> k]
             /\ screwtape.ip = Len(calls)
             /\ screwtape.terminated <=> Len(calls) = Len(screwtape.program)
        /\ Len(screwtape.program) = 0 =>
             /\ \A k \in 1..Len(calls) : calls[k] = [at |-> 0, to |-> 0]
             /\ screwtape.terminated <=> Len(calls) = 1
        /\ Len(calls) <= (IF Len(screwtape.program) = 0 THEN 1
                          ELSE Len(screwtape.program))

\* '+' and an unmatched ']' on the nonzero cell have run in order, and the
\* engine is terminated
C28_Witness ==
    /\ screwtape.program = <<"+", "]">>
    /\ Len(calls) = 2
    /\ CurrentValue(screwtape) # 0
    /\ screwtape.terminated

\* C29: in every reachable state 0 <= ip <= len(program); a step() either
\* moves ip forward by one (or, on the empty program, leaves it at 0) or is
\* a jump from a ']' to the index of a '[' strictly before it.
C29_PointerInRange ==
    LET s == screwtape
        n == Len(screwtape.program)
    IN /\ 0 <= s.ip
       /\ s.ip <= n
       /\ 0 <= step(s).ip
       /\ step(s).ip <= n
       /\ \A k \in 1..Len(calls) :
            LET e == calls[k] IN
            \/ e.to = e.at + 1 /\ e.at < n
            \/ n = 0 /\ e.at = 0 /\ e.to = 0
            \/ /\ 0 <= e.to
               /\ e.to < e.at
               /\ e.at < n
               /\ CharAt(s.program, e.at) = "]"
               /\ CharAt(s.program, e.to) = "["
       /\ (InBounds(s) /\ JumpTaken(s)) =>
            /\ 0 <= step(s).ip
            /\ step(s).ip < s.ip
            /\ CharAt(s.program, step(s).ip) = "["

\* the ']' at index 1 has just jumped to the '[' at index 0
C29_Witness ==
    /\ Len(calls) > 0
    /\ LastCall = [at |-> 1, to |-> 0]
    /\ screwtape.ip = 0
    /\ CharAt(screwtape.program, 0) = "["

====
